---- MODULE Spec2Model ----
(***************************************************************************)
(* FullPipeline of the search-api Dagger module, as a state machine.       *)
(*                                                                         *)
(* FullPipeline is a straight-line Go function: it appends a line to the   *)
(* string `report`, calls one stage function, and either returns           *)
(* (report, error) or appends a result line and goes on.  One action of    *)
(* the model is one such step.  The outcome of the operation a stage runs  *)
(* on the execution substrate is the step's input.                         *)
(***************************************************************************)
EXTENDS Integers, Sequences, FiniteSets

VARIABLES variant, creds, k8sManifests, pc, report, returned, err, outcome,
          execs, container, registry, cluster, fnCall, fnResult, procs,
          substrate

vars == <<variant, creds, k8sManifests, pc, report, returned, err, outcome,
          execs, container, registry, cluster, fnCall, fnResult, procs,
          substrate>>

(* The state of one FullPipeline run. *)
runVars == <<variant, creds, k8sManifests, pc, report, returned, err, outcome,
             execs, container, registry, cluster>>

(* The state of the stage and module functions called on their own: the    *)
(* call, its result, the concurrent callers, and what they share outside.  *)
callVars == <<fnCall, fnResult, procs, substrate>>

(* Largest number of operations that go wrong in one run. *)
MaxFailures == 2

(* What the substrate can answer for one operation: it ran and passed,    *)
(* it ran and reported findings or a failure, or it could not run at all. *)
Outcomes == {"ok", "finding", "infra"}

St(n, h, od, wd) == [name |-> n, handling |-> h, okDetail |-> od, warnDetail |-> wd]

(* The steps of the 24-step FullPipeline: the stage each step calls and    *)
(* what the step does with the stage's error.  "abort": return (report,    *)
(* error); "warn": append a warning line and go on; "none": the call has   *)
(* no error value.  okDetail / warnDetail: what of the stage's result the  *)
(* appended line carries.                                                  *)
Steps24 ==
    << St("SecretScan", "abort", "none", "none"),
       St("SastScan", "abort", "none", "none"),
       St("CSharpSecurityAnalysis", "abort", "none", "none"),
       St("Build", "abort", "none", "none"),
       St("CodeCoverage", "warn", "none", "err"),
       St("StaticAnalysis", "warn", "output", "err"),
       St("DependencyScan", "abort", "none", "none"),
       St("LicenseScan", "abort", "none", "none"),
       St("IacScan", "warn", "none", "none"),
       St("PolicyCheck", "warn", "none", "none"),
       St("GenerateSbom", "warn", "len", "err"),
       St("BuildContainer", "none", "none", "none"),
       St("ContainerSizeAnalysis", "warn", "none", "err"),
       St("ScanContainer", "abort", "none", "none"),
       St("CisBenchmark", "warn", "none", "none"),
       St("PushToLocalRegistry", "abort", "address", "none"),
       St("SetupK3s", "abort", "none", "none"),
       St("DeploySolr", "abort", "none", "none"),
       St("DeployApi", "abort", "none", "none"),
       St("RunIntegrationTests", "abort", "none", "none"),
       St("DastScan", "abort", "none", "none"),
       St("ApiSecurityTest", "abort", "none", "none"),
       St("PerformanceTest", "warn", "none", "err"),
       St("MutationTest", "warn", "none", "err"),
       St("PushToRegistry", "abort", "address", "none") >>

(* The steps of the earlier 12-step FullPipeline. *)
Steps12 ==
    << St("Build", "abort", "none", "none"),
       St("StaticAnalysis", "warn", "output", "err"),
       St("SecurityScan", "abort", "output", "none"),
       St("GenerateSbom", "warn", "len", "err"),
       St("BuildContainer", "none", "none", "none"),
       St("ScanContainer", "warn", "len", "err"),
       St("PushToLocalRegistry", "abort", "address", "none"),
       St("SetupK3s", "abort", "none", "none"),
       St("DeploySolr", "abort", "none", "none"),
       St("DeployApi", "abort", "none", "none"),
       St("RunIntegrationTests", "abort", "output", "none"),
       St("PushToHarbor", "abort", "address", "none") >>

Variants == {"v24", "v12"}

StageNames ==
    {Steps24[i].name : i \in 1..Len(Steps24)}
        \cup {Steps12[i].name : i \in 1..Len(Steps12)}

(* The step list with the container scan and DAST of the 24-step pipeline  *)
(* handled as warnings, the way the 12-step pipeline handles its scan.     *)
Stages_SoftGates ==
    IF variant = "v24"
    THEN [i \in 1..Len(Steps24) |->
            IF Steps24[i].name \in {"ScanContainer", "DastScan"}
            THEN St(Steps24[i].name, "warn", "none", "err")
            ELSE Steps24[i]]
    ELSE Steps12

(* The step list with Solr deployed before the cluster is set up. *)
Stages_DeployBeforeCluster ==
    IF variant = "v24"
    THEN [i \in 1..Len(Steps24) |->
            IF i = 17 THEN Steps24[18]
            ELSE IF i = 18 THEN Steps24[17]
            ELSE Steps24[i]]
    ELSE Steps12

(* The step list with the container scan of the 12-step pipeline enforced  *)
(* the way the 24-step pipeline enforces it.                               *)
Stages_EnforcedScan12 ==
    IF variant = "v24"
    THEN Steps24
    ELSE [i \in 1..Len(Steps12) |->
            IF Steps12[i].name = "ScanContainer"
            THEN St("ScanContainer", "abort", "none", "none")
            ELSE Steps12[i]]

(* The step list with a failing registry push handled as a warning. *)
Stages_PushWarns ==
    IF variant = "v24"
    THEN [i \in 1..Len(Steps24) |->
            IF i = Len(Steps24)
            THEN St(Steps24[i].name, "warn", "address", "err")
            ELSE Steps24[i]]
    ELSE [i \in 1..Len(Steps12) |->
            IF i = Len(Steps12)
            THEN St(Steps12[i].name, "warn", "address", "err")
            ELSE Steps12[i]]

(* The step list with failing integration tests handled as a warning. *)
Stages_SoftIntegrationTests ==
    IF variant = "v24"
    THEN [i \in 1..Len(Steps24) |->
            IF Steps24[i].name = "RunIntegrationTests"
            THEN St("RunIntegrationTests", "warn", "none", "err")
            ELSE Steps24[i]]
    ELSE Steps12

(* The step list of the pipeline variant that is running. *)
Stages == IF variant = "v24" THEN Steps24 ELSE Steps12

NSteps == Len(Stages)

(* The last step of both pipelines publishes to the external registry and  *)
(* is guarded by the credentials.                                          *)
IsPublish(s) == s \in {"PushToRegistry", "PushToHarbor"}

(* Stage functions that only build a lazy container value: no Stdout, Sync *)
(* or Publish call, so nothing is evaluated and no error can come back.    *)
Evaluates(s) == s \notin {"Build", "BuildContainer"}

(* Stage functions that evaluate the container of BuildContainer. *)
UsesContainer(s) ==
    s \in {"ContainerSizeAnalysis", "ScanContainer", "CisBenchmark",
           "PushToLocalRegistry", "PushToRegistry", "PushToHarbor"}

(* Stage functions that bind the cluster service of SetupK3s. *)
UsesCluster(s) ==
    s \in {"DeploySolr", "DeployApi", "RunIntegrationTests", "DastScan",
           "ApiSecurityTest", "PerformanceTest"}

(* Stage functions that evaluate source.Directory("k8s"). *)
UsesManifests(s) == s = "DeploySolr"

(* Whether the stage function returns a non-nil error, given the outcome o *)
(* of its own operation and the state img of the container it evaluates.   *)
ReturnsError(s, o, img) ==
    /\ Evaluates(s)
    /\ s \notin {"IacScan", "ContainerSizeAnalysis"}
    /\ \/ o # "ok"
       \/ UsesContainer(s) /\ img = "fail"

(* How many times the stage function executes its operation. *)
Execs(s, e) ==
    IF ~Evaluates(s) THEN 0
    ELSE IF s = "DastScan" /\ e THEN 2
    ELSE 1

Line(s, k, d) == [stage |-> s, kind |-> k, detail |-> d]

Header == Line("FullPipeline", "header", "none")
Footer == Line("FullPipeline", "completed", "none")

(* The if err != nil { ... } else { ... } after a stage call: rep already  *)
(* holds the step's start line, e says whether the error is non-nil.       *)
Handle_DropReport(st, e, rep) ==
    IF st.handling = "abort" /\ e
    THEN [report |-> <<>>, halt |-> TRUE]
    ELSE IF st.handling = "warn" /\ e
    THEN [report |-> Append(rep, Line(st.name, "warn", st.warnDetail)), halt |-> FALSE]
    ELSE [report |-> Append(rep, Line(st.name, "ok", st.okDetail)), halt |-> FALSE]

Handle_WarnAborts(st, e, rep) ==
    IF e /\ st.handling \in {"abort", "warn"}
    THEN [report |-> rep, halt |-> TRUE]
    ELSE [report |-> Append(rep, Line(st.name, "ok", st.okDetail)), halt |-> FALSE]

Handle_OkAsWarning(st, e, rep) ==
    IF st.handling = "abort" /\ e
    THEN [report |-> rep, halt |-> TRUE]
    ELSE IF st.handling = "warn"
    THEN [report |-> Append(rep, Line(st.name, "warn", st.warnDetail)), halt |-> FALSE]
    ELSE [report |-> Append(rep, Line(st.name, "ok", st.okDetail)), halt |-> FALSE]

Handle_Overwrites(st, e, rep) ==
    IF st.handling = "abort" /\ e
    THEN [report |-> rep, halt |-> TRUE]
    ELSE IF st.handling = "warn" /\ e
    THEN [report |-> <<Line(st.name, "warn", st.warnDetail)>>, halt |-> FALSE]
    ELSE [report |-> Append(rep, Line(st.name, "ok", st.okDetail)), halt |-> FALSE]

Handle(st, e, rep) ==
    IF st.handling = "abort" /\ e
    THEN [report |-> rep, halt |-> TRUE]
    ELSE IF st.handling = "warn" /\ e
    THEN [report |-> Append(rep, Line(st.name, "warn", st.warnDetail)), halt |-> FALSE]
    ELSE [report |-> Append(rep, Line(st.name, "ok", st.okDetail)), halt |-> FALSE]

(* Operations that went wrong so far in the run. *)
Faults ==
    Cardinality({s \in StageNames :
                    /\ outcome[s] \notin {"none", "ok"}
                    /\ ~(UsesContainer(s) /\ container = "fail")
                    /\ ~(UsesManifests(s) /\ ~k8sManifests)})
        + (IF container = "fail" THEN 1 ELSE 0)
        + (IF cluster = "starting" THEN 1 ELSE 0)

(* No call of a single stage function is being looked at. *)
NoCall == [fn |-> "none", measured |-> 0, minimum |-> 0, outcome |-> "ok"]

(* Nothing outside the run is being looked at. *)
NoSubstrate == [kind |-> "none"]

(* No stage function has returned yet. *)
NoResult == [done |-> FALSE, err |-> FALSE, kind |-> "none", halt |-> FALSE]

(* The registry parameters of a run, by which of them are non-empty: none, *)
(* all four, only the url, all but the password.                           *)
CredentialInputs ==
    {[url |-> u, username |-> n, password |-> p, imageRef |-> i] :
        <<u, n, p, i>> \in {<<FALSE, FALSE, FALSE, FALSE>>,
                            <<TRUE, TRUE, TRUE, TRUE>>,
                            <<TRUE, FALSE, FALSE, FALSE>>,
                            <<TRUE, TRUE, FALSE, TRUE>>}}

Init ==
    /\ variant \in Variants
    /\ creds \in CredentialInputs
    /\ k8sManifests \in BOOLEAN
    /\ fnCall = NoCall
    /\ fnResult = NoResult
    /\ procs = <<>>
    /\ substrate = NoSubstrate
    /\ pc = 1
    /\ report = <<Header>>
    /\ returned = FALSE
    /\ err = "nil"
    /\ outcome = [s \in StageNames |-> "none"]
    /\ execs = [s \in StageNames |-> 0]
    /\ container = "none"
    /\ registry = <<>>
    /\ cluster = "none"

Cur == Stages[pc]

Running == ~returned /\ pc \in 1..NSteps

(* The step with its start line written only once the stage has returned   *)
(* without error.                                                          *)
Dispatch_NoStartLine(st, o, img) ==
    LET e == ReturnsError(st.name, o, img)
        h == Handle(st, e, report)
    IN  /\ report' = IF h.halt THEN report
                     ELSE <<Header>> \o Tail(Append(report, Line(st.name, "start", "none")))
                            \o <<h.report[Len(h.report)]>>
        /\ returned' = h.halt
        /\ err' = IF h.halt THEN st.name ELSE "nil"
        /\ pc' = IF h.halt THEN pc ELSE pc + 1
        /\ outcome' = [outcome EXCEPT ![st.name] =
                          IF Evaluates(st.name) THEN o ELSE "none"]
        /\ execs' = [execs EXCEPT ![st.name] = Execs(st.name, e)]

(* The step returning the report with a nil error when it stops. *)
Dispatch_NilOnAbort(st, o, img) ==
    LET e == ReturnsError(st.name, o, img)
        h == Handle(st, e, Append(report, Line(st.name, "start", "none")))
    IN  /\ report' = h.report
        /\ returned' = h.halt
        /\ err' = "nil"
        /\ pc' = IF h.halt THEN pc ELSE pc + 1
        /\ outcome' = [outcome EXCEPT ![st.name] =
                          IF Evaluates(st.name) THEN o ELSE "none"]
        /\ execs' = [execs EXCEPT ![st.name] = Execs(st.name, e)]

(* One step of FullPipeline: the start line, the stage call with operation *)
(* outcome o and container state img, and the handling of its error.       *)
Dispatch(st, o, img) ==
    LET e == ReturnsError(st.name, o, img)
        h == Handle(st, e, Append(report, Line(st.name, "start", "none")))
    IN  /\ report' = h.report
        /\ returned' = h.halt
        /\ err' = IF h.halt THEN st.name ELSE "nil"
        /\ pc' = IF h.halt THEN pc ELSE pc + 1
        /\ outcome' = [outcome EXCEPT ![st.name] =
                          IF Evaluates(st.name) THEN o ELSE "none"]
        /\ execs' = [execs EXCEPT ![st.name] = Execs(st.name, e)]

(* The container states an evaluating stage can meet: a lazy container is  *)
(* built on first use and the build passes or fails; afterwards it stays.  *)
ImageStates(s) ==
    IF ~UsesContainer(s) THEN {container}
    ELSE IF container = "lazy" THEN {"ok", "fail"}
    ELSE {container}

(* The outcomes of a stage's own operation: it cannot run on a container   *)
(* that failed to build, nor on a k8s directory the source does not have.  *)
OwnOutcomes(s, img) ==
    IF UsesContainer(s) /\ img = "fail" THEN {"infra"}
    ELSE IF UsesManifests(s) /\ ~k8sManifests THEN {"infra"}
    ELSE Outcomes

(* A step whose error returns from FullPipeline. *)
Gate ==
    /\ Running
    /\ Cur.handling = "abort"
    /\ ~IsPublish(Cur.name)
    /\ Cur.name \notin {"PushToLocalRegistry", "SetupK3s"}
    /\ \E img \in ImageStates(Cur.name) :
         \E o \in OwnOutcomes(Cur.name, img) :
            /\ Dispatch(Cur, o, img)
            /\ container' = img
    /\ UNCHANGED <<variant, creds, k8sManifests, callVars, registry, cluster>>
    /\ Faults' <= MaxFailures

(* A step whose error becomes a warning line. *)
Check ==
    /\ Running
    /\ Cur.handling = "warn"
    /\ \E img \in ImageStates(Cur.name) :
         \E o \in OwnOutcomes(Cur.name, img) :
            /\ Dispatch(Cur, o, img)
            /\ container' = img
    /\ UNCHANGED <<variant, creds, k8sManifests, callVars, registry, cluster>>
    /\ Faults' <= MaxFailures

(* container := m.BuildContainer(ctx, source): a lazy value, no error. *)
BuildContainer ==
    /\ Running
    /\ Cur.name = "BuildContainer"
    /\ Dispatch(Cur, "ok", container)
    /\ container' = "lazy"
    /\ UNCHANGED <<variant, creds, k8sManifests, callVars, registry, cluster>>

(* m.SetupLocalRegistry(): every call builds a new service value; whether  *)
(* the substrate serves it by the instance already running is its choice.  *)
SetupLocalRegistry ==
    IF registry = <<>> THEN {1}
    ELSE {registry[Len(registry)], registry[Len(registry)] + 1}

PushToLocalRegistry ==
    /\ Running
    /\ Cur.name = "PushToLocalRegistry"
    /\ \E inst \in SetupLocalRegistry :
         registry' = Append(registry, inst)
    /\ \E img \in ImageStates(Cur.name) :
         \E o \in OwnOutcomes(Cur.name, img) :
            /\ Dispatch(Cur, o, img)
            /\ container' = img
    /\ UNCHANGED <<variant, creds, k8sManifests, callVars, cluster>>
    /\ Faults' <= MaxFailures

(* SetupK3s: starts k3s in the background, sleeps 10 s and reads the       *)
(* kubeconfig; ready says whether the server answers by then.              *)
SetupK3s ==
    /\ Running
    /\ Cur.name = "SetupK3s"
    /\ \E inst \in SetupLocalRegistry :
         registry' = Append(registry, inst)
    /\ \E o \in Outcomes, ready \in BOOLEAN :
         /\ Dispatch(Cur, o, container)
         /\ cluster' = IF ReturnsError("SetupK3s", o, container) THEN "none"
                       ELSE IF ready THEN "ready" ELSE "starting"
    /\ UNCHANGED <<variant, creds, k8sManifests, callVars, container>>
    /\ Faults' <= MaxFailures

CredentialsProvided_Any ==
    creds.url \/ creds.username \/ creds.password \/ creds.imageRef

CredentialsProvided ==
    creds.url /\ creds.username /\ creds.password /\ creds.imageRef

(* The last step: publish when all four credentials are given, else a     *)
(* line saying the push is skipped.                                        *)
RegistryPush ==
    /\ Running
    /\ IsPublish(Cur.name)
    /\ IF CredentialsProvided
       THEN \E img \in ImageStates(Cur.name) :
              \E o \in OwnOutcomes(Cur.name, img) :
                 /\ Dispatch(Cur, o, img)
                 /\ container' = img
       ELSE /\ report' = Append(report, Line(Cur.name, "skip", "none"))
            /\ pc' = pc + 1
            /\ UNCHANGED <<returned, err, outcome, execs, container>>
    /\ UNCHANGED <<variant, creds, k8sManifests, callVars, registry, cluster>>
    /\ Faults' <= MaxFailures

(* The completion lines appended without returning. *)
Complete_LeavesRunning ==
    /\ ~returned
    /\ pc = NSteps + 1
    /\ report' = Append(report, Footer)
    /\ pc' = pc + 1
    /\ UNCHANGED <<variant, creds, k8sManifests, callVars, returned,
                   err, outcome, execs, container, registry, cluster>>

(* The completion lines and return report, nil. *)
Complete ==
    /\ ~returned
    /\ pc = NSteps + 1
    /\ report' = Append(report, Footer)
    /\ returned' = TRUE
    /\ err' = "nil"
    /\ UNCHANGED <<variant, creds, k8sManifests, callVars, pc, outcome, execs, container, registry, cluster>>

Next ==
    \/ Gate
    \/ Check
    \/ BuildContainer
    \/ PushToLocalRegistry
    \/ SetupK3s
    \/ RegistryPush
    \/ Complete

Spec == Init /\ [][Next]_vars

(***************************************************************************)
(* Reading the run off the state.                                          *)
(***************************************************************************)
HasLine(s, k) ==
    \E i \in 1..Len(report) : report[i].stage = s /\ report[i].kind = k

HasAnyLine(s) == \E i \in 1..Len(report) : report[i].stage = s

(* The step's start line is appended right before the stage is called. *)
Dispatched(s) == HasLine(s, "start")

(* The stage was called and its function returned a non-nil error. *)
Errored(s) == Dispatched(s) /\ ReturnsError(s, outcome[s], container)

Aborted == returned /\ err # "nil"
Completed == returned /\ err = "nil"

Status(s) ==
    IF Aborted /\ err = s THEN "Failed"
    ELSE IF HasLine(s, "warn") THEN "Warning"
    ELSE IF HasLine(s, "ok") THEN "Success"
    ELSE IF HasLine(s, "skip") THEN "Skipped"
    ELSE "Absent"

Idx(s) == CHOOSE i \in 1..NSteps : Stages[i].name = s

HardPolicy ==
    {"SecretScan", "SastScan", "CSharpSecurityAnalysis", "Build",
     "DependencyScan", "LicenseScan", "ScanContainer", "PushToLocalRegistry",
     "SetupK3s", "DeploySolr", "DeployApi", "RunIntegrationTests", "DastScan",
     "ApiSecurityTest", "PushToRegistry"}

SoftPolicy ==
    {"CodeCoverage", "StaticAnalysis", "GenerateSbom", "CisBenchmark",
     "PerformanceTest", "MutationTest"}

SecurityGates ==
    {"SecretScan", "SastScan", "CSharpSecurityAnalysis", "DependencyScan",
     "LicenseScan", "PolicyCheck", "ScanContainer", "DastScan",
     "ApiSecurityTest"}

(* Nothing of the stages after position i has happened. *)
NothingAfter(i) ==
    \A j \in (i + 1)..NSteps :
        /\ ~Dispatched(Stages[j].name)
        /\ execs[Stages[j].name] = 0
        /\ outcome[Stages[j].name] = "none"
        /\ Status(Stages[j].name) \notin {"Success", "Failed"}

(* C1: in the 24-step pipeline, when a Hard-policy stage returns an error  *)
(* no stage after it in the fixed order is dispatched or executed, and     *)
(* none of them ends Success or Failed.                                    *)
C1_HardFailureHaltsDispatch ==
    variant = "v24" =>
        \A s \in HardPolicy :
            Errored(s) => /\ Aborted
                          /\ NothingAfter(Idx(s))

C1_Witness ==
    /\ variant = "v24"
    /\ Errored("DastScan")
    /\ returned
    /\ HasLine("CodeCoverage", "warn")

(* The lines the report must hold for the first n steps, all dispatched:   *)
(* start line then result line of each, in stage order.                    *)
EntriesKept(n) ==
    /\ Len(report) >= 2 * n + 1
    /\ report[1] = Header
    /\ \A j \in 1..n :
          /\ report[2 * j] = Line(Stages[j].name, "start", "none")
          /\ report[2 * j + 1].stage = Stages[j].name
          /\ report[2 * j + 1].kind =
                IF Errored(Stages[j].name) THEN "warn" ELSE "ok"

(* C2: an aborted run returns the partial report with the error of the     *)
(* stage it aborted at, which is the first stage whose error is handled    *)
(* by a return; the report holds, in order, the lines of every stage       *)
(* dispatched before it, warnings included.                                *)
C2_AbortKeepsPartialReport ==
    Aborted =>
        /\ pc \in 1..NSteps
        /\ err = Stages[pc].name
        /\ Errored(err)
        /\ \A j \in 1..(pc - 1) :
              ~(Stages[j].handling = "abort" /\ Errored(Stages[j].name))
        /\ EntriesKept(pc - 1)
        /\ report[Len(report)] = Line(err, "start", "none")
        /\ Len(report) = 2 * pc

C2_Witness ==
    /\ variant = "v24"
    /\ Aborted
    /\ pc > 6
    /\ \E j \in 1..(pc - 1) : HasLine(Stages[j].name, "warn")

(* C3: each of the 9 documented security gates blocks the 24-step          *)
(* pipeline: when one reports a failure the run returns an error, no later *)
(* step is executed and the completion lines are never written.            *)
C3_NineGatesBlock ==
    variant = "v24" =>
        \A g \in SecurityGates :
            Errored(g) => /\ Aborted
                          /\ err = g
                          /\ NothingAfter(Idx(g))
                          /\ ~HasLine("FullPipeline", "completed")

(* Every stage after position i was dispatched, the publish step being     *)
(* either dispatched or recorded as skipped.                               *)
AllLaterDispatched(i) ==
    \A j \in (i + 1)..NSteps :
        \/ Dispatched(Stages[j].name)
        \/ IsPublish(Stages[j].name) /\ HasLine(Stages[j].name, "skip")

EveryStageSucceeded ==
    \A i \in 1..NSteps :
        Dispatched(Stages[i].name) /\ ~Errored(Stages[i].name)

C6_InfrastructureErrorAlwaysAborts ==
    variant = "v24" =>
        \A s \in StageNames :
            outcome[s] = "infra" => Aborted /\ err = s

(* C7: both registry acquisitions of a 24-step run (PushToLocalRegistry    *)
(* and SetupK3s) give the same instance: at most one registry is started.  *)
C7_RegistryAcquiredOnce ==
    variant = "v24" =>
        \A i, j \in 1..Len(registry) : registry[i] = registry[j]

(* C8: when the cluster of SetupK3s is not ready within its deadline the   *)
(* run aborts at SetupK3s, before any stage that uses the cluster.         *)
C8_ClusterNotReadyAborts ==
    (variant = "v24" /\ Dispatched("SetupK3s") /\ cluster # "ready") =>
        /\ Aborted
        /\ err = "SetupK3s"
        /\ \A s \in StageNames : UsesCluster(s) => execs[s] = 0

C10_BuildLinesMeanBuilt ==
    /\ (variant = "v24" /\ HasLine("Build", "ok")) =>
          (execs["Build"] >= 1 /\ outcome["Build"] = "ok")
    /\ HasLine("BuildContainer", "ok") => container = "ok"

(* The stage's error is part of one of its lines in the report. *)
ErrorRecorded(s) ==
    \E i \in 1..Len(report) : report[i].stage = s /\ report[i].detail = "err"

(* C11: an error of the IacScan scanner never aborts the run and never     *)
(* yields a Warning: the stage is marked Success, the next stages are      *)
(* dispatched, and the error is recorded in the stage's result.            *)
C11_IacScanErrorRecorded ==
    (variant = "v24" /\ Dispatched("IacScan") /\ outcome["IacScan"] = "finding") =>
        /\ ~(Aborted /\ err = "IacScan")
        /\ Status("IacScan") = "Success"
        /\ pc > Idx("IacScan")
        /\ ErrorRecorded("IacScan")

(* The stage's raw output is part of one of its lines in the report. *)
OutputKept(s) ==
    \E i \in 1..Len(report) : report[i].stage = s /\ report[i].detail = "output"

(* C12: the report holds the raw output of every dispatched stage whose    *)
(* operation was executed, when the run completes and when it aborts.      *)
C12_RawOutputPreserved ==
    variant = "v24" =>
        \A s \in StageNames :
            (Dispatched(s) /\ execs[s] >= 1 /\ (returned \/ pc > Idx(s))) =>
                OutputKept(s)

(* C13: every step only appends to the report: its length never decreases  *)
(* and a line once written never changes.                                  *)
C13_ReportAppendOnly ==
    [][/\ Len(report') >= Len(report)
       /\ \A i \in 1..Len(report) : report'[i] = report[i]]_vars

C13_Witness ==
    /\ variant = "v24"
    /\ Aborted
    /\ Len(report) >= 12
    /\ \E i \in 1..Len(report) : report[i].kind = "warn"

(* Every step was processed: each stage has its result line. *)
EveryStageProcessed ==
    /\ pc = NSteps + 1
    /\ \A i \in 1..NSteps :
          \E k \in 1..Len(report) :
              /\ report[k].stage = Stages[i].name
              /\ report[k].kind \in {"ok", "warn", "skip"}

(* C14: the returned error is nil exactly when every stage was processed   *)
(* without an abort, and the completion lines are in the report exactly    *)
(* when the returned error is nil.                                         *)
C14_NilErrorIffCompleted ==
    /\ returned =>
          /\ (err = "nil") <=> EveryStageProcessed
          /\ (err = "nil") <=> HasLine("FullPipeline", "completed")
          /\ (err # "nil") <=> (pc \in 1..NSteps /\ err = Stages[pc].name)
    /\ ~returned => (err = "nil" /\ ~HasLine("FullPipeline", "completed"))

C14_Witness ==
    /\ variant = "v12"
    /\ Completed
    /\ HasLine("ScanContainer", "warn")

(* The stage lines of the report: a start line directly followed by the    *)
(* result line of the same stage, or the skip line of the publish step.    *)
OneAtATime ==
    \A k \in 2..Len(report) :
        /\ report[k].kind = "start" =>
              \/ k = Len(report)
              \/ /\ report[k + 1].stage = report[k].stage
                 /\ report[k + 1].kind \in {"ok", "warn"}
        /\ report[k].kind \in {"ok", "warn"} =>
              /\ report[k - 1].kind = "start"
              /\ report[k - 1].stage = report[k].stage

(* Each stage line is followed by a line of the same or of a later step;   *)
(* the completion lines come after every stage line.                       *)
InStageOrder ==
    \A k \in 2..(Len(report) - 1) :
        IF report[k].stage = "FullPipeline"
        THEN report[k + 1].stage = "FullPipeline"
        ELSE \/ report[k + 1].stage = "FullPipeline"
             \/ Idx(report[k].stage) <= Idx(report[k + 1].stage)

(* C15: stages are dispatched one at a time in the fixed order, a stage    *)
(* using the container only after the BuildContainer step has returned, a  *)
(* stage using the cluster only after SetupK3s has returned it, and the    *)
(* report lines are in that stage order.                                   *)
C15_SequentialInOrder ==
    /\ OneAtATime
    /\ InStageOrder
    /\ \A s \in StageNames :
          /\ (Dispatched(s) /\ UsesContainer(s)) =>
                (HasLine("BuildContainer", "ok") /\ container # "none")
          /\ (Dispatched(s) /\ UsesCluster(s)) =>
                (HasLine("SetupK3s", "ok") /\ cluster # "none")

C15_Witness ==
    /\ variant = "v24"
    /\ Dispatched("PerformanceTest")
    /\ Dispatched("CisBenchmark")

(* C16: in one run the operation of each stage is executed at most once.   *)
C16_AtMostOneExecution ==
    variant = "v24" => \A s \in StageNames : execs[s] <= 1

(* The 24 steps of the README, by the stage function of each. *)
ReadmeSteps24 ==
    << "SecretScan", "SastScan", "CSharpSecurityAnalysis", "Build",
       "CodeCoverage", "StaticAnalysis", "DependencyScan", "LicenseScan",
       "IacScan", "PolicyCheck", "GenerateSbom", "BuildContainer",
       "ScanContainer", "CisBenchmark", "AttestSbom", "PushToLocalRegistry",
       "SetupK3s", "DeploySolr", "DeployApi", "RunIntegrationTests",
       "DastScan", "ApiSecurityTest", "PerformanceTest", "MutationTest" >>

StartPos(s) ==
    CHOOSE k \in 1..Len(report) : report[k].stage = s /\ report[k].kind = "start"

(* C18: a completed 24-step run has executed the documented steps in the   *)
(* documented order, the SBOM attestation between the CIS benchmark and    *)
(* the push to the local registry, the cluster setup after that push.      *)
C18_DocumentedStepOrder ==
    (variant = "v24" /\ Completed) =>
        /\ \A i \in 1..Len(ReadmeSteps24) : Dispatched(ReadmeSteps24[i])
        /\ \A i, j \in 1..Len(ReadmeSteps24) :
              i < j => StartPos(ReadmeSteps24[i]) < StartPos(ReadmeSteps24[j])

(* Registry parameters given only in part. *)
PartialCredentials ==
    /\ \E k \in DOMAIN creds : creds[k]
    /\ \E k \in DOMAIN creds : ~creds[k]

(* The source lacks the k8s directory, or the registry parameters are      *)
(* given only in part.                                                     *)
ConfigurationInvalid == ~k8sManifests \/ PartialCredentials

(* C19 as stated: with an invalid or incomplete configuration the run      *)
(* never starts: no stage is dispatched or executed.                       *)
C19_InvalidConfigNeverStarts ==
    (variant = "v24" /\ ConfigurationInvalid) =>
        \A s \in StageNames : ~Dispatched(s) /\ execs[s] = 0

(* C19, amended: nothing is validated before the first stage, which is     *)
(* dispatched whatever the configuration.  A source without k8s directory  *)
(* aborts the run only at DeploySolr, after every step before it was       *)
(* dispatched; registry parameters given in part are treated as not given: *)
(* the push is skipped and the run ends Completed.                         *)
C19_InvalidConfigSurfacesLate ==
    /\ (pc > 1 \/ returned) => Dispatched(Stages[1].name)
    /\ (~k8sManifests /\ Dispatched("DeploySolr")) =>
          /\ Aborted
          /\ err = "DeploySolr"
          /\ \A j \in 1..(Idx("DeploySolr") - 1) :
                /\ Dispatched(Stages[j].name)
                /\ Evaluates(Stages[j].name) => execs[Stages[j].name] >= 1
    /\ ~k8sManifests => pc <= Idx("DeploySolr")
    /\ (PartialCredentials /\ pc = NSteps + 1) =>
          /\ HasLine(Stages[NSteps].name, "skip")
          /\ ~Dispatched(Stages[NSteps].name)
          /\ execs[Stages[NSteps].name] = 0
          /\ returned => Completed

C19_Witness ==
    /\ variant = "v24"
    /\ ~k8sManifests
    /\ PartialCredentials
    /\ Aborted
    /\ err = "DeploySolr"

Percent == 100

(* The minimum that step 5 passes to CodeCoverage. *)
CoverageThreshold == 80

(* CodeCoverage reports and compares nothing: the parse-and-compare is a   *)
(* TODO, so the error result only tells that the collection failed.        *)
CodeCoverage(minimumCoverage, measured, o) ==
    ReturnsError("CodeCoverage", o, "none")

InitCoverage ==
    /\ variant = "v24"
    /\ creds = [url |-> FALSE, username |-> FALSE,
                password |-> FALSE, imageRef |-> FALSE]
    /\ k8sManifests = TRUE
    /\ fnCall \in [fn : {"CodeCoverage"}, measured : 0..Percent,
                   minimum : 0..Percent, outcome : Outcomes]
    /\ fnResult = NoResult
    /\ procs = <<>>
    /\ substrate = NoSubstrate
    /\ pc = Idx("CodeCoverage")
    /\ report = <<Header>>
    /\ returned = FALSE
    /\ err = "nil"
    /\ outcome = [s \in StageNames |-> "none"]
    /\ execs = [s \in StageNames |-> 0]
    /\ container = "none"
    /\ registry = <<>>
    /\ cluster = "none"

(* One call CodeCoverage(ctx, source, minimum), and what step 5 does with  *)
(* the result of its own call, whose minimum is CoverageThreshold.         *)
CallCodeCoverage ==
    /\ ~fnResult.done
    /\ fnCall.fn = "CodeCoverage"
    /\ LET e  == CodeCoverage(fnCall.minimum, fnCall.measured, fnCall.outcome)
           e5 == CodeCoverage(CoverageThreshold, fnCall.measured,
                              fnCall.outcome)
           h  == Handle(Cur, e5, <<>>)
       IN  fnResult' = [done |-> TRUE, err |-> e,
                        kind |-> h.report[Len(h.report)].kind,
                        halt |-> h.halt]
    /\ UNCHANGED <<runVars, fnCall, procs, substrate>>

NextCoverage == CallCodeCoverage

SpecCoverage == InitCoverage /\ [][NextCoverage]_vars

(* C17: code coverage is enforced: a call whose collection succeeded       *)
(* returns an error when the measured coverage is below the minimum, and   *)
(* step 5 fails the pipeline when the coverage is below 80.                *)
C17_CoverageEnforced ==
    (fnResult.done /\ fnCall.outcome = "ok") =>
        /\ fnCall.measured < fnCall.minimum => fnResult.err
        /\ fnCall.measured < CoverageThreshold => fnResult.halt

(* All four registry parameters of the run are given. *)
AllFourGiven == \A k \in DOMAIN creds : creds[k]

(* The run has passed or ended at its last step. *)
PastLastStep == pc = NSteps + 1 \/ (Aborted /\ err = Stages[NSteps].name)

(* C23: the last step executes the registry push exactly when all four     *)
(* registry parameters are given; otherwise nothing is pushed, the report  *)
(* says the push was skipped and the run ends Completed with a nil error.  *)
(* A push that fails aborts the run.                                       *)
C23_PushIffAllCredentials ==
    LET P == Stages[NSteps].name
    IN  /\ Dispatched(P) => AllFourGiven
        /\ (PastLastStep /\ AllFourGiven) =>
              (Dispatched(P) /\ execs[P] = 1 /\ ~HasLine(P, "skip"))
        /\ (PastLastStep /\ ~AllFourGiven) =>
              /\ HasLine(P, "skip")
              /\ ~Dispatched(P)
              /\ execs[P] = 0
              /\ outcome[P] = "none"
              /\ ~Aborted
              /\ returned => Completed
        /\ Errored(P) => (Aborted /\ err = P /\ ~HasLine(P, "ok"))

C23_Witness ==
    /\ variant = "v24"
    /\ PartialCredentials
    /\ Completed
    /\ HasLine("PushToRegistry", "skip")

(* The checks the README names as standing between code and production.    *)
ProductionChecks ==
    {"SecretScan", "SastScan", "CSharpSecurityAnalysis", "DependencyScan",
     "LicenseScan", "ScanContainer", "RunIntegrationTests", "DastScan",
     "ApiSecurityTest"}

(* The stage was called in this run and returned without error. *)
ReturnedWithoutError(s) ==
    /\ Dispatched(s)
    /\ HasLine(s, "ok")
    /\ execs[s] >= 1
    /\ ~Errored(s)

C25_ClusterReadyBeforeDependents ==
    variant = "v24" =>
        /\ HasLine("SetupK3s", "ok") => cluster = "ready"
        /\ \A s \in StageNames :
              (UsesCluster(s) /\ Dispatched(s)) => cluster = "ready"

(* FullPipeline is one sequential function: as long as every stage call    *)
(* and service acquisition returns, its next statement is executed.        *)
FairSpec == Spec /\ WF_vars(Next)

(* How many times the completion lines are in the report. *)
Finalized == Cardinality({k \in 1..Len(report) : report[k] = Footer})

(* The run is in exactly one of Running(pc), Aborted(pc, cause) and        *)
(* Completed, and the report is finalized only in Completed.               *)
OneRunState ==
    /\ Completed => (pc = NSteps + 1 /\ Finalized = 1)
    /\ Aborted => (pc \in 1..NSteps /\ err = Stages[pc].name /\ Finalized = 0)
    /\ ~returned => (pc \in 1..(NSteps + 1) /\ err = "nil" /\ Finalized = 0)

(* C24: every run eventually returns, Completed or Aborted; while running  *)
(* the position only moves from one step to the next; once the run has     *)
(* returned nothing is dispatched and the report never changes again.      *)
C24_TerminatesOnce ==
    /\ <>returned
    /\ []OneRunState
    /\ [][/\ pc' \in {pc, pc + 1}
          /\ pc' = pc + 1 => (~returned /\ ~returned')
          /\ (pc' = pc /\ ~returned) => returned'
          /\ returned => UNCHANGED vars]_vars
    /\ [](returned => []returned)

C24_Witness ==
    /\ variant = "v24"
    /\ Aborted
    /\ err = "DastScan"
    /\ HasLine("CodeCoverage", "warn")

(***************************************************************************)
(* MutationTest on its own: a call with a minimum score, on a project      *)
(* whose tests reach a measured mutation score, and step 23 handling the   *)
(* result.                                                                 *)
(***************************************************************************)

(* The minimum that step 23 passes to MutationTest. *)
MutationThreshold == 80

(* MutationTest sets Stryker's break threshold this far under the minimum. *)
BreakMargin == 10

(* dotnet stryker --threshold-high h --threshold-low l --threshold-break b *)
(* exits non-zero when the score is under the break threshold; the high    *)
(* and low thresholds only colour the output.  strict: the tool refuses    *)
(* thresholds outside 0..100, which the version installed decides.         *)
StrykerFails(h, l, b, score, strict) ==
    \/ strict /\ \E t \in {h, l, b} : t < 0 \/ t > Percent
    \/ score < b

MutationTest(minimumScore, score, o, strict) ==
    \/ o # "ok"
    \/ StrykerFails(minimumScore, minimumScore - BreakMargin,
                    minimumScore - BreakMargin, score, strict)

InitMutation ==
    /\ variant = "v24"
    /\ creds = [url |-> FALSE, username |-> FALSE,
                password |-> FALSE, imageRef |-> FALSE]
    /\ k8sManifests = TRUE
    /\ fnCall \in [fn : {"MutationTest"}, measured : 0..Percent,
                   minimum : 0..Percent, outcome : Outcomes]
    /\ fnResult = NoResult
    /\ procs = <<>>
    /\ substrate = NoSubstrate
    /\ pc = Idx("MutationTest")
    /\ report = <<Header>>
    /\ returned = FALSE
    /\ err = "nil"
    /\ outcome = [s \in StageNames |-> "none"]
    /\ execs = [s \in StageNames |-> 0]
    /\ container = "none"
    /\ registry = <<>>
    /\ cluster = "none"

(* One call MutationTest(ctx, source, minimum), and what step 23 does with *)
(* the result of its own call, whose minimum is MutationThreshold.         *)
CallMutationTest ==
    /\ ~fnResult.done
    /\ fnCall.fn = "MutationTest"
    /\ \E strict \in BOOLEAN :
         LET e   == MutationTest(fnCall.minimum, fnCall.measured,
                                 fnCall.outcome, strict)
             e23 == MutationTest(MutationThreshold, fnCall.measured,
                                 fnCall.outcome, strict)
             h   == Handle(Cur, e23, <<>>)
         IN  fnResult' = [done |-> TRUE, err |-> e,
                          kind |-> h.report[Len(h.report)].kind,
                          halt |-> h.halt]
    /\ UNCHANGED <<runVars, fnCall, procs, substrate>>

NextMutation == CallMutationTest

SpecMutation == InitMutation /\ [][NextMutation]_vars

(* C28: a MutationTest call whose tools ran returns an error exactly when  *)
(* the mutation score is below the minimum; step 23, with minimum 80,      *)
(* then records a warning and the run continues.                           *)
C28_MutationFailsBelowMinimum ==
    (fnResult.done /\ fnCall.outcome = "ok") =>
        /\ fnResult.err <=> fnCall.measured < fnCall.minimum
        /\ fnResult.kind = "warn" <=> fnCall.measured < MutationThreshold
        /\ ~fnResult.halt

(***************************************************************************)
(* The Trufflehog module: Scan and ScanGit build the argument list of one  *)
(* trufflehog run and return its output and error.  Argument values are    *)
(* strings, kept as sequences of code points.                              *)
(***************************************************************************)

(* Largest maxDepth of a ScanGit call. *)
MaxDepth == 11

Arg(f, v) == [flag |-> f, value |-> v]

HasFlag(args, f) == \E i \in 1..Len(args) : args[i].flag = f

(* fmt.Sprintf("%d", n) for n >= 0: the decimal digits of n. *)
RECURSIVE Decimal(_)
Decimal(n) ==
    IF n < 10 THEN <<48 + n>>
    ELSE Decimal(n \div 10) \o <<48 + (n % 10)>>

(* string(rune(r)): the one code point r, or U+FFFD when r is no valid     *)
(* code point.                                                             *)
RuneString(r) ==
    IF r < 0 \/ r > 1114111 \/ r \in 55296..57343 THEN <<65533>> ELSE <<r>>

(* The argument list Scan builds: failOnVerified only decides whether      *)
(* --no-verification is appended.                                          *)
ScanArgs(concurrency, failOnVerified) ==
    << Arg("trufflehog", <<>>), Arg("filesystem", <<>>), Arg("/src", <<>>),
       Arg("--json", <<>>), Arg("--no-update", <<>>),
       Arg("--concurrency=", Decimal(concurrency)) >>
        \o (IF ~failOnVerified THEN <<Arg("--no-verification", <<>>)>>
            ELSE <<>>)

(* The argument list ScanGit builds. *)
ScanGitArgs(branch, maxDepth) ==
    << Arg("trufflehog", <<>>), Arg("git", <<>>), Arg("repoUrl", <<>>),
       Arg("--json", <<>>), Arg("--no-update", <<>>) >>
        \o (IF branch # "" THEN <<Arg("--branch=", <<98>>)>> ELSE <<>>)
        \o (IF maxDepth > 0
            THEN <<Arg("--max-depth=", RuneString(maxDepth + 48))>>
            ELSE <<>>)

(* Whether the trufflehog run exits non-zero: it could not run, or it      *)
(* found secrets and was told to fail on them.                             *)
TrufflehogFails(args, secrets, crash) ==
    \/ crash
    \/ secrets /\ HasFlag(args, "--fail")

TrufflehogCalls ==
    [fn : {"Scan"}, failOnVerified : BOOLEAN, concurrency : {1, 10},
     secrets : BOOLEAN, crash : BOOLEAN]
        \cup [fn : {"ScanGit"}, branch : {"", "b"}, maxDepth : -1..MaxDepth,
              secrets : BOOLEAN, crash : BOOLEAN]

InitTrufflehog ==
    /\ variant = "v24"
    /\ creds = [url |-> FALSE, username |-> FALSE,
                password |-> FALSE, imageRef |-> FALSE]
    /\ k8sManifests = TRUE
    /\ fnCall \in TrufflehogCalls
    /\ fnResult = NoResult
    /\ procs = <<>>
    /\ substrate = NoSubstrate
    /\ pc = 1
    /\ report = <<Header>>
    /\ returned = FALSE
    /\ err = "nil"
    /\ outcome = [s \in StageNames |-> "none"]
    /\ execs = [s \in StageNames |-> 0]
    /\ container = "none"
    /\ registry = <<>>
    /\ cluster = "none"

Scan ==
    /\ ~fnResult.done
    /\ fnCall.fn = "Scan"
    /\ LET args == ScanArgs(fnCall.concurrency, fnCall.failOnVerified)
       IN  fnResult' = [done |-> TRUE, args |-> args,
                        err |-> TrufflehogFails(args, fnCall.secrets,
                                                fnCall.crash)]
    /\ UNCHANGED <<runVars, fnCall, procs, substrate>>

ScanGit ==
    /\ ~fnResult.done
    /\ fnCall.fn = "ScanGit"
    /\ LET args == ScanGitArgs(fnCall.branch, fnCall.maxDepth)
       IN  fnResult' = [done |-> TRUE, args |-> args,
                        err |-> TrufflehogFails(args, fnCall.secrets,
                                                fnCall.crash)]
    /\ UNCHANGED <<runVars, fnCall, procs, substrate>>

NextTrufflehog == Scan \/ ScanGit

SpecTrufflehog == InitTrufflehog /\ [][NextTrufflehog]_vars

(* C29: a Scan call with failOnVerified runs the tool with --fail, so      *)
(* that found secrets make the call return an error; without               *)
(* failOnVerified the findings come back without an error.                 *)
C29_ScanFailsOnSecrets ==
    (fnResult.done /\ fnCall.fn = "Scan" /\ ~fnCall.crash) =>
        /\ fnCall.failOnVerified =>
              /\ HasFlag(fnResult.args, "--fail")
              /\ fnCall.secrets => fnResult.err
        /\ ~fnCall.failOnVerified => ~fnResult.err

(* C30: a ScanGit call with maxDepth > 0 passes --max-depth= followed by   *)
(* the decimal digits of maxDepth; with maxDepth = 0 it passes no depth    *)
(* limit.                                                                  *)
C30_MaxDepthDecimal ==
    (fnResult.done /\ fnCall.fn = "ScanGit") =>
        /\ fnCall.maxDepth > 0 =>
              \E i \in 1..Len(fnResult.args) :
                  fnResult.args[i] =
                      Arg("--max-depth=", Decimal(fnCall.maxDepth))
        /\ fnCall.maxDepth = 0 => ~HasFlag(fnResult.args, "--max-depth=")

(***************************************************************************)
(* SearchService.IndexDocumentAsync and DeleteDocumentAsync: each call     *)
(* sends one update (Add or Delete) and then one Commit to Solr, inside a  *)
(* try block.  substrate.ops is what Solr was asked to do, call by call.   *)
(***************************************************************************)

(* Number of calls made on one SearchService. *)
MaxCalls == 2

(* How a Solr operation can end: normally, or by throwing. *)
SolrOutcomes ==
    {"ok", "SolrConnectionException", "InvalidOperationException",
     "OtherException"}

(* The exceptions each method leaves uncaught. *)
Caught_Nothing(fn, exc) == FALSE

(* The catch clauses of the two methods. *)
Caught(fn, exc) ==
    \/ exc = "SolrConnectionException"
    \/ fn = "IndexDocumentAsync" /\ exc = "InvalidOperationException"

ServiceCalls ==
    [fn : {"IndexDocumentAsync", "DeleteDocumentAsync"},
     valid : BOOLEAN, n : {1}]

(* A call that has not executed a statement yet. *)
Entered == [done |-> FALSE, at |-> "check", result |-> "none"]

(* The call has ended: it returned true or false, or it threw. *)
Ended(r) == [done |-> TRUE, at |-> "end", result |-> r]

InitService ==
    /\ variant = "v24"
    /\ creds = [url |-> FALSE, username |-> FALSE,
                password |-> FALSE, imageRef |-> FALSE]
    /\ k8sManifests = TRUE
    /\ fnCall \in ServiceCalls
    /\ fnResult = Entered
    /\ procs = <<>>
    /\ substrate = [kind |-> "solr", ops |-> <<>>]
    /\ pc = 1
    /\ report = <<Header>>
    /\ returned = FALSE
    /\ err = "nil"
    /\ outcome = [s \in StageNames |-> "none"]
    /\ execs = [s \in StageNames |-> 0]
    /\ container = "none"
    /\ registry = <<>>
    /\ cluster = "none"

(* One operation sent to Solr by the call, and where the call goes from    *)
(* there: on, to return false, or out by the exception.                    *)
SolrOp(op, o, next) ==
    /\ substrate' = [substrate EXCEPT
                        !.ops = Append(@, [call |-> fnCall.n, op |-> op,
                                           outcome |-> o])]
    /\ fnResult' = IF o = "ok" THEN next
                   ELSE IF Caught(fnCall.fn, o) THEN Ended("false")
                   ELSE Ended("threw")

(* ArgumentNullException.ThrowIfNull / ThrowIfNullOrWhiteSpace. *)
ThrowIfNull ==
    /\ fnResult.at = "check"
    /\ fnResult' = IF fnCall.valid
                   THEN [fnResult EXCEPT !.at = "update"]
                   ELSE Ended("threw")
    /\ UNCHANGED <<runVars, fnCall, procs, substrate>>

Add ==
    /\ fnResult.at = "update"
    /\ fnCall.fn = "IndexDocumentAsync"
    /\ \E o \in SolrOutcomes :
         SolrOp("Add", o, [fnResult EXCEPT !.at = "commit"])
    /\ UNCHANGED <<runVars, fnCall, procs>>

Delete ==
    /\ fnResult.at = "update"
    /\ fnCall.fn = "DeleteDocumentAsync"
    /\ \E o \in SolrOutcomes :
         SolrOp("Delete", o, [fnResult EXCEPT !.at = "commit"])
    /\ UNCHANGED <<runVars, fnCall, procs>>

Commit ==
    /\ fnResult.at = "commit"
    /\ \E o \in SolrOutcomes : SolrOp("Commit", o, Ended("true"))
    /\ UNCHANGED <<runVars, fnCall, procs>>

(* The next call on the same service. *)
NextCall ==
    /\ fnResult.done
    /\ fnCall.n < MaxCalls
    /\ \E c \in ServiceCalls : fnCall' = [c EXCEPT !.n = fnCall.n + 1]
    /\ fnResult' = Entered
    /\ UNCHANGED <<runVars, procs, substrate>>

NextService == ThrowIfNull \/ Add \/ Delete \/ Commit \/ NextCall

SpecService == InitService /\ [][NextService]_vars

(* What Solr was asked to do by the call in progress. *)
OpsOfCall == SelectSeq(substrate.ops, LAMBDA e : e.call = fnCall.n)

UpdateOp == IF fnCall.fn = "IndexDocumentAsync" THEN "Add" ELSE "Delete"

(* C21: a call issues one Add (Delete) and then one Commit and returns     *)
(* true when both succeed; when the Add (Delete) fails with a Solr         *)
(* connection error the call returns false, throws nothing and issues no   *)
(* Commit.                                                                 *)
C21_OneUpdateOneCommit ==
    LET ops == OpsOfCall
        bothOk == <<[call |-> fnCall.n, op |-> UpdateOp, outcome |-> "ok"],
                    [call |-> fnCall.n, op |-> "Commit", outcome |-> "ok"]>>
    IN  /\ Len(ops) <= 2
        /\ Len(ops) >= 1 => ops[1].op = UpdateOp
        /\ Len(ops) = 2 => (ops[1].outcome = "ok" /\ ops[2].op = "Commit")
        /\ fnResult.result = "true" <=> (fnResult.done /\ ops = bothOk)
        /\ (Len(ops) >= 1 /\ ops[1].outcome = "SolrConnectionException") =>
              /\ fnResult.done
              /\ fnResult.result = "false"
              /\ Len(ops) = 1

C21_Witness ==
    /\ fnCall.n = 2
    /\ fnCall.fn = "DeleteDocumentAsync"
    /\ fnResult.result = "false"
    /\ Len(OpsOfCall) = 1
    /\ OpsOfCall[1].outcome = "SolrConnectionException"
    /\ \E i \in 1..Len(substrate.ops) :
          substrate.ops[i] = [call |-> 1, op |-> "Commit", outcome |-> "ok"]

(***************************************************************************)
(* The Zap module: BaselineScan, FullScan and ApiScan run the scan in a    *)
(* container that mounts the cache volume "zap-reports" on /zap/wrk, drop  *)
(* the scan's result, and then cat /zap/wrk/report.json in a second        *)
(* container that mounts the same volume.  substrate.volume is the set of  *)
(* report.json files on that volume: none or one.                          *)
(***************************************************************************)

(* Number of scan calls under way against one engine. *)
MaxScans == 2

ZapFunctions == {"BaselineScan", "FullScan", "ApiScan"}

(* The JSON report the scan of call p writes, and the text of echo '{}'.   *)
ReportOf(p) == [scan |-> p]

EmptyJson == [scan |-> 0]

(* cat /zap/wrk/report.json 2>/dev/null || echo '{}' *)
CatReport(volume) ==
    IF volume = {} THEN EmptyJson ELSE CHOOSE r \in volume : TRUE

InitZap ==
    /\ variant = "v24"
    /\ creds = [url |-> FALSE, username |-> FALSE,
                password |-> FALSE, imageRef |-> FALSE]
    /\ k8sManifests = TRUE
    /\ fnCall = NoCall
    /\ fnResult = NoResult
    /\ procs \in [1..MaxScans ->
                    [fn : ZapFunctions, at : {"scan"}, wrote : {FALSE},
                     result : {EmptyJson}]]
    /\ substrate = [kind |-> "zap", volume |-> {}]
    /\ pc = 1
    /\ report = <<Header>>
    /\ returned = FALSE
    /\ err = "nil"
    /\ outcome = [s \in StageNames |-> "none"]
    /\ execs = [s \in StageNames |-> 0]
    /\ container = "none"
    /\ registry = <<>>
    /\ cluster = "none"

(* The scan exec of call p: it writes its report over report.json, or it   *)
(* ends before writing one; either way its output and error are dropped.   *)
ZapScan(p) ==
    /\ procs[p].at = "scan"
    /\ \E wrote \in BOOLEAN :
         /\ procs' = [procs EXCEPT ![p].at = "read", ![p].wrote = wrote]
         /\ substrate' = IF wrote
                         THEN [substrate EXCEPT !.volume = {ReportOf(p)}]
                         ELSE substrate
    /\ UNCHANGED <<runVars, fnCall, fnResult>>

(* The cat exec of call p and the return of its output. *)
ZapReturnReport(p) ==
    /\ procs[p].at = "read"
    /\ procs' = [procs EXCEPT ![p].at = "done",
                              ![p].result = CatReport(substrate.volume)]
    /\ UNCHANGED <<runVars, fnCall, fnResult, substrate>>

NextZap == \E p \in 1..MaxScans : ZapScan(p) \/ ZapReturnReport(p)

SpecZap == InitZap /\ [][NextZap]_vars

(* C27: a scan call returns the report its own scan wrote, or '{}' when    *)
(* its scan wrote none; never the report of another call.                  *)
C27_OwnReportReturned ==
    \A p \in DOMAIN procs :
        procs[p].at = "done" =>
            procs[p].result =
                (IF procs[p].wrote THEN ReportOf(p) ELSE EmptyJson)

(***************************************************************************)
(* Two FullPipeline runs against one engine, from the push to the local    *)
(* registry to the integration tests.  Each run builds its services from   *)
(* definitions that carry nothing of the run; substrate.registries is the  *)
(* registry:2 instances running, each by the run whose image it holds      *)
(* under search-api:tag (0: none).                                         *)
(***************************************************************************)

(* Number of FullPipeline runs under way against one engine. *)
MaxRuns == 2

(* m.SetupLocalRegistry() in a run: the same service definition in every   *)
(* run and call; the engine serves it by an instance already running or    *)
(* starts a new one.                                                       *)
RegistryInstances == 1..(Len(substrate.registries) + 1)

StartedIfNew(i) ==
    IF i > Len(substrate.registries)
    THEN Append(substrate.registries, 0)
    ELSE substrate.registries

InitTwoRuns ==
    /\ variant = "v24"
    /\ creds = [url |-> FALSE, username |-> FALSE,
                password |-> FALSE, imageRef |-> FALSE]
    /\ k8sManifests = TRUE
    /\ fnCall = NoCall
    /\ fnResult = NoResult
    /\ procs \in [1..MaxRuns ->
                    [at : {"PushToLocalRegistry"}, testsPass : BOOLEAN,
                     pushedTo : {0}, pullsFrom : {0}, deployed : {0},
                     status : {"Running"}]]
    /\ substrate = [kind |-> "engine", registries |-> <<>>]
    /\ pc = 1
    /\ report = <<Header>>
    /\ returned = FALSE
    /\ err = "nil"
    /\ outcome = [s \in StageNames |-> "none"]
    /\ execs = [s \in StageNames |-> 0]
    /\ container = "none"
    /\ registry = <<>>
    /\ cluster = "none"

(* Step 15 of run r: publish registry:5000/search-api:tag. *)
RunPushToLocalRegistry(r) ==
    /\ procs[r].at = "PushToLocalRegistry"
    /\ \E i \in RegistryInstances :
         /\ substrate' = [substrate EXCEPT
                             !.registries = [StartedIfNew(i) EXCEPT ![i] = r]]
         /\ procs' = [procs EXCEPT ![r].at = "SetupK3s", ![r].pushedTo = i]
    /\ UNCHANGED <<runVars, fnCall, fnResult>>

(* Step 16 of run r: the cluster binds the registry of its own             *)
(* SetupLocalRegistry() call.                                              *)
RunSetupK3s(r) ==
    /\ procs[r].at = "SetupK3s"
    /\ \E i \in RegistryInstances :
         /\ substrate' = [substrate EXCEPT !.registries = StartedIfNew(i)]
         /\ procs' = [procs EXCEPT ![r].at = "DeployApi", ![r].pullsFrom = i]
    /\ UNCHANGED <<runVars, fnCall, fnResult>>

(* Step 18 of run r: the deployment pulls registry:5000/search-api:tag     *)
(* from the registry the cluster binds; the run aborts when it is missing. *)
RunDeployApi(r) ==
    /\ procs[r].at = "DeployApi"
    /\ LET img == substrate.registries[procs[r].pullsFrom]
       IN  procs' = IF img = 0
                    THEN [procs EXCEPT ![r].at = "done",
                                       ![r].status = "Aborted"]
                    ELSE [procs EXCEPT ![r].at = "RunIntegrationTests",
                                       ![r].deployed = img]
    /\ UNCHANGED <<runVars, fnCall, fnResult, substrate>>

(* Step 19 of run r: the tests run against what is deployed. *)
RunIntegrationTests(r) ==
    /\ procs[r].at = "RunIntegrationTests"
    /\ procs' = [procs EXCEPT
                    ![r].at = "done",
                    ![r].status = IF procs[procs[r].deployed].testsPass
                                  THEN "Completed" ELSE "Aborted"]
    /\ UNCHANGED <<runVars, fnCall, fnResult, substrate>>

NextTwoRuns ==
    \E r \in 1..MaxRuns :
        \/ RunPushToLocalRegistry(r)
        \/ RunSetupK3s(r)
        \/ RunDeployApi(r)
        \/ RunIntegrationTests(r)

SpecTwoRuns == InitTwoRuns /\ [][NextTwoRuns]_vars

(* The registry instances run r uses. *)
InstancesOf(r) == {procs[r].pushedTo, procs[r].pullsFrom} \ {0}

(* C26: concurrent runs do not interfere: no registry instance is used by  *)
(* two runs, a run deploys and tests its own image only, and its final     *)
(* status follows from its own stages.                                     *)
C26_RunsDoNotInterfere ==
    \A r \in DOMAIN procs :
        /\ \A q \in DOMAIN procs \ {r} : InstancesOf(r) \cap InstancesOf(q) = {}
        /\ procs[r].deployed \in {0, r}
        /\ procs[r].status = "Completed" => procs[r].testsPass
        /\ (procs[r].status = "Aborted" /\ procs[r].deployed # 0) =>
              ~procs[r].testsPass

====
